---- MODULE Spec2Model ----
(***************************************************************************)
(* Style service of flowlint: combo-class detection (detectComboClass),    *)
(* the memoized site-wide style fetch (getAllStylesWithProperties) and     *)
(* resetStyleServiceCache, from src/entities/style/model/style.service.ts. *)
(*                                                                         *)
(* Class names are sequences of one-character strings.  JavaScript values  *)
(* that flow through the detection (true, false, null, undefined) are the  *)
(* strings "true", "false", "null", "undefined".                           *)
(***************************************************************************)
EXTENDS Integers, Sequences, FiniteSets, TLC

VARIABLES
    det,                     \* one detectComboClass invocation: inputs, position, result
    site,                    \* the Style objects webflow.getAllStyles() resolves with
    presetEnv,               \* behaviour of getCurrentPreset / getPresetById
    cachedAllStylesPromise,  \* module-level cache: 0 is null, else an index of promises
    promises,                \* every promise the async body of the fetch created
    calls,                   \* what each getAllStylesWithProperties call returned
    fetchLog,                \* ghost: reset epoch of every webflow.getAllStyles() call
    resetCount,              \* ghost: number of resetStyleServiceCache calls so far
    srt,                     \* one sortStylesByType invocation: argument, result
    app,                     \* the getAppliedStyles / getAppliedClassNames invocations
    store,                   \* state of useElementLintStore
    handlers,                \* the refresh calls and selectedelement callbacks started
    host,                    \* window.webflow, ensureLinterInitialized, the selection
    ignoreNext,              \* window.__flowlint_ignoreNextSelectedEvent
    latest,                  \* ghost: the element the latest handler set out to lint
    ops,                     \* ghost: refresh, event, clear and flag operations so far
    eventLog                 \* ghost: per selectedelement event delivered, was it skipped

vars == <<det, site, presetEnv, cachedAllStylesPromise, promises, calls, fetchLog, resetCount,
          srt, app, store, handlers, host, ignoreNext, latest, ops, eventLog>>

\* the variables of the sort, of the per-element functions and of the store
extVars == <<srt, app, store, handlers, host, ignoreNext, latest, ops, eventLog>>

storeVars == <<store, handlers, host, ignoreNext, latest, ops, eventLog>>

\* initialState of the store
initialState ==
    [results |-> <<>>, contexts |-> <<>>, classNames |-> <<>>, roles |-> <<>>,
     loading |-> FALSE, error |-> "null"]

svcVars == <<site, presetEnv, cachedAllStylesPromise, promises, calls, fetchLog, resetCount>>

----------------------------------------------------------------------------
(* Bounds of the model *)

MaxNameLen == 4
MaxStyles == 2
MaxCalls == 3
MaxResets == 2

----------------------------------------------------------------------------
(* Characters and strings *)

Upper == {"A","B","C","D","E","F","G","H","I","J","K","L","M",
          "N","O","P","Q","R","S","T","U","V","W","X","Y","Z"}

Lower == {"a","b","c","d","e","f","g","h","i","j","k","l","m",
          "n","o","p","q","r","s","t","u","v","w","x","y","z"}

Digit == {"0","1","2","3","4","5","6","7","8","9"}

AlphaNum == Upper \cup Lower \cup Digit

Whitespace == {" ", "\t", "\n"}

LineTerminators == {"\n", "\r"}

\* String.prototype.startsWith
StartsWith(s, prefix) ==
    /\ Len(prefix) <= Len(s)
    /\ \A k \in 1..Len(prefix) : s[k] = prefix[k]

\* String.prototype.trim: drops leading and trailing whitespace
RECURSIVE TrimStart(_)
TrimStart(s) ==
    IF s # <<>> /\ Head(s) \in Whitespace THEN TrimStart(Tail(s)) ELSE s

RECURSIVE TrimEnd(_)
TrimEnd(s) ==
    IF s # <<>> /\ s[Len(s)] \in Whitespace
    THEN TrimEnd(SubSeq(s, 1, Len(s) - 1)) ELSE s

Trim(s) == TrimEnd(TrimStart(s))

\* a TLA+ boolean as a JavaScript boolean
ToJs(b) == IF b THEN "true" ELSE "false"

----------------------------------------------------------------------------
(* The heuristic: /^(?:is-[A-Za-z0-9]|is_[A-Za-z0-9]|is[A-Z]).*/.test(name) *)

\* the three alternatives of the group, each a sequence of character classes
ComboRegexAlternatives ==
    { <<{"i"}, {"s"}, {"-"}, AlphaNum>>,
      <<{"i"}, {"s"}, {"_"}, AlphaNum>>,
      <<{"i"}, {"s"}, Upper>> }

\* the alternative matches s from position pos on
MatchesAt(alt, s, pos) ==
    /\ pos + Len(alt) - 1 <= Len(s)
    /\ \A k \in 1..Len(alt) : s[pos + k - 1] \in alt[k]

\* ".*" from position pos: any number (zero included) of non-line-terminators;
\* the pattern has no "$", so the match need not reach the end of s
DotStarAt(s, pos) ==
    \E n \in 0..(Len(s) - pos + 1) :
        \A k \in 0..(n - 1) : s[pos + k] \notin LineTerminators

\* the unanchored pattern: the "^" forgotten
HeuristicResult_Unanchored(className) ==
    \E pos \in 1..(Len(className) + 1) :
        \E alt \in ComboRegexAlternatives :
            /\ MatchesAt(alt, className, pos)
            /\ DotStarAt(className, pos + Len(alt))

\* "^" anchors the match at position 1
HeuristicResult(className) ==
    \E alt \in ComboRegexAlternatives :
        /\ MatchesAt(alt, className, 1)
        /\ DotStarAt(className, 1 + Len(alt))

----------------------------------------------------------------------------
(* Style objects, presets, policies *)

\* what style.isComboClass does: the method is absent, or the call resolves
\* with a value, or it rejects
Signals == {"absent", "true", "false", "null", "undefined", "rejects"}

NoPolicy == [type |-> "undefined", value |-> ""]

StringPolicy(s) == [type |-> "string", value |-> s]

FunctionPolicy(f) == [type |-> "function", value |-> f]

\* the custom policy functions presets of the model carry
PolicyFunctions == {"testPolicy", "requireBoth", "nullMeansCombo"}

\* "unknown-policy" is a string outside the ComboDetectionPolicy union
Policies ==
    {NoPolicy}
    \cup {StringPolicy(s) : s \in {"api-first", "api-only", "heuristic-only", "unknown-policy"}}
    \cup {FunctionPolicy(f) : f \in PolicyFunctions}

UndefinedPreset == [defined |-> FALSE, comboDetectionPolicy |-> NoPolicy]

PresetWith(policy) == [defined |-> TRUE, comboDetectionPolicy |-> policy]

Presets == {UndefinedPreset} \cup {PresetWith(p) : p \in Policies}

\* a call of a custom policy function: (apiResult, heuristicResult, className) => boolean
CallPolicyFunction(f, apiResult, heuristicResult, className) ==
    CASE f = "testPolicy" ->
            IF StartsWith(className, <<"i","s","-","a","p","i">>)
            THEN ToJs(apiResult = "true")
            ELSE heuristicResult
      [] f = "requireBoth" -> ToJs(apiResult = "true" /\ heuristicResult = "true")
      [] f = "nullMeansCombo" -> ToJs(apiResult = "null")

----------------------------------------------------------------------------
(* detectComboClass *)

\* completion of a step: a value, or an exception on its way up
Normal(v) == [threw |-> FALSE, value |-> v]

Throw == [threw |-> TRUE, value |-> "undefined"]

\* the try block without its catch: the rejection leaves detectComboClass
ApiResult_NoCatch(style) ==
    IF style.isComboClass = "absent" THEN Normal("undefined")
    ELSE IF style.isComboClass = "rejects" THEN Throw
    ELSE Normal(style.isComboClass)

\* let apiResult; if the method exists: try { apiResult = await style.isComboClass() }
\* catch { apiResult = null }
ApiResult(style) ==
    IF style.isComboClass = "absent" THEN Normal("undefined")
    ELSE IF style.isComboClass = "rejects" THEN Normal("null")
    ELSE Normal(style.isComboClass)

HasApiMethod(style) == style.isComboClass # "absent"

\* the default forgotten: no policy means the heuristic alone
PolicyOf_DefaultHeuristic(preset) ==
    IF ~preset.defined \/ preset.comboDetectionPolicy.type = "undefined"
    THEN StringPolicy("heuristic-only")
    ELSE preset.comboDetectionPolicy

\* preset?.comboDetectionPolicy ?? 'api-first'
PolicyOf(preset) ==
    IF ~preset.defined \/ preset.comboDetectionPolicy.type = "undefined"
    THEN StringPolicy("api-first")
    ELSE preset.comboDetectionPolicy

Detection(isCombo, source, policyCalls) ==
    [isCombo |-> isCombo, source |-> source, policyCalls |-> policyCalls]

\* the policy function called with the heuristic first
CustomPolicy_ArgsSwapped(f, apiResult, heuristicResult, className) ==
    Detection(CallPolicyFunction(f, heuristicResult, apiResult, className), "policy",
              << <<heuristicResult, apiResult, className>> >>)

\* typeof policy === 'function'
CustomPolicy(f, apiResult, heuristicResult, className) ==
    Detection(CallPolicyFunction(f, apiResult, heuristicResult, className), "policy",
              << <<apiResult, heuristicResult, className>> >>)

\* the source reported as 'api' only when the call produced a boolean
ApiOnly_SourceBySignal(apiResult, hasApiMethod) ==
    Detection(ToJs(apiResult = "true"),
              IF apiResult \in {"true", "false"} THEN "api" ELSE "policy", <<>>)

\* case 'api-only'
ApiOnly(apiResult, hasApiMethod) ==
    Detection(ToJs(apiResult = "true"), IF hasApiMethod THEN "api" ELSE "policy", <<>>)

\* the heuristic-only branch consulting the API when it answered
HeuristicOnly_PrefersApi(apiResult, heuristicResult) ==
    IF apiResult \in {"true", "false"}
    THEN Detection(apiResult, "heuristic", <<>>)
    ELSE Detection(heuristicResult, "heuristic", <<>>)

\* case 'heuristic-only'
HeuristicOnly(apiResult, heuristicResult) ==
    Detection(heuristicResult, "heuristic", <<>>)

\* the test for undefined forgotten
ApiFirst_NullOnly(apiResult, heuristicResult) ==
    IF apiResult # "null"
    THEN Detection(apiResult, "api", <<>>)
    ELSE Detection(heuristicResult, "heuristic", <<>>)

\* a falsy API answer treated as no answer
ApiFirst_Truthy(apiResult, heuristicResult) ==
    IF apiResult = "true"
    THEN Detection(apiResult, "api", <<>>)
    ELSE Detection(heuristicResult, "heuristic", <<>>)

\* case 'api-first' and default
ApiFirst(apiResult, heuristicResult) ==
    IF apiResult # "null" /\ apiResult # "undefined"
    THEN Detection(apiResult, "api", <<>>)
    ELSE Detection(heuristicResult, "heuristic", <<>>)

Rejected ==
    [status |-> "rejected", isCombo |-> "undefined", source |-> "none",
     policyCalls |-> <<>>, heuristicResult |-> "undefined"]

Resolved(d, heuristicResult) ==
    [status |-> "resolved", isCombo |-> d.isCombo, source |-> d.source,
     policyCalls |-> d.policyCalls, heuristicResult |-> heuristicResult]

\* async function detectComboClass(style, className, preset)
DetectComboClass(style, className, preset) ==
    LET heuristicResult == ToJs(HeuristicResult(className))
        api == ApiResult(style)
        apiResult == api.value
        hasApiMethod == HasApiMethod(style)
        policy == PolicyOf(preset)
    IN  IF api.threw THEN Rejected
        ELSE IF policy.type = "function"
        THEN Resolved(CustomPolicy(policy.value, apiResult, heuristicResult, className),
                      heuristicResult)
        ELSE CASE policy.value = "api-only" ->
                     Resolved(ApiOnly(apiResult, hasApiMethod), heuristicResult)
               [] policy.value = "heuristic-only" ->
                     Resolved(HeuristicOnly(apiResult, heuristicResult), heuristicResult)
               [] OTHER ->
                     Resolved(ApiFirst(apiResult, heuristicResult), heuristicResult)

----------------------------------------------------------------------------
(* The state of the other functions while one of them is exercised *)

SortIdle == srt = [pc |-> "idle", styles |-> <<>>, result |-> <<>>]

\* the two callers whose invocations may overlap
Callers == {1, 2}

\* a caller that has not called
IdleInvocation ==
    [fn |-> "none", pc |-> "idle", element |-> [kind |-> "null", styles |-> <<>>],
     appliedStyles |-> <<>>, currentPreset |-> UndefinedPreset, i |-> 0,
     seenIds |-> {}, uniqueStyles |-> <<>>, result |-> <<>>, overlapped |-> FALSE]

AppliedIdle == app = [c \in Callers |-> IdleInvocation]

\* the store at module load, outside the Designer: no subscription, nothing selected
StoreIdle ==
    /\ store = initialState
    /\ handlers = <<>>
    /\ host = [webflow |-> "none", ensureThrows |-> FALSE, selected |-> "null"]
    /\ ignoreNext = FALSE
    /\ latest = "null"
    /\ ops = 0
    /\ eventLog = <<>>

ExtIdle == SortIdle /\ AppliedIdle /\ StoreIdle

----------------------------------------------------------------------------
(* Inputs of the detection specifications *)

StyleWith(signal) == [isComboClass |-> signal]

\* class names of the tests and of the edge cases of the pattern
DetectNames ==
    { <<"i","s","-","a">>, <<"i","s","_","a">>, <<"i","s","A">>,
      <<"i","s","-">>, <<"i","s","1">>, <<"x">>, <<>>,
      <<" ","i","s","A">>, <<"i","s","-","a","p","i">> }

NameAlphabet == {"i", "s", "-", "_", "A", "I", "1", " "}

AllNames == UNION {[1..n -> NameAlphabet] : n \in 0..MaxNameLen}

\* the exact cases of the heuristic's tests
ExampleNames ==
    { <<"i","s","-","a","c","t","i","v","e">>,
      <<"i","s","_","v","i","s","i","b","l","e">>,
      <<"i","s","A","c","t","i","v","e">>,
      <<"i","s","-","1","2","3","4">>,
      <<"i","s","1","2","3","4">>,
      <<"c","o","m","p","o","n","e","n","t","-","c","a","r","d">> }

NoResult ==
    [status |-> "none", isCombo |-> "undefined", source |-> "none",
     policyCalls |-> <<>>, heuristicResult |-> "undefined"]

IdleDet ==
    [pc |-> "idle", style |-> StyleWith("absent"), className |-> <<>>,
     preset |-> UndefinedPreset, result |-> NoResult]

ReadyDet(style, className, preset) ==
    [pc |-> "ready", style |-> style, className |-> className,
     preset |-> preset, result |-> NoResult]

\* the service at module load: no cached promise, nothing fetched
ServiceIdle ==
    /\ site = <<>>
    /\ presetEnv = [kind |-> "preset", preset |-> UndefinedPreset]
    /\ cachedAllStylesPromise = 0
    /\ promises = <<>>
    /\ calls = <<>>
    /\ fetchLog = <<>>
    /\ resetCount = 0

\* one invocation of detectComboClass, from its call to its settlement
DetectComboClassCall ==
    /\ det.pc = "ready"
    /\ det' = [det EXCEPT !.pc = "done",
                          !.result = DetectComboClass(det.style, det.className, det.preset)]
    /\ UNCHANGED <<svcVars, extVars>>

InitDetect ==
    /\ \E s \in Signals, n \in DetectNames, p \in Presets :
           det = ReadyDet(StyleWith(s), n, p)
    /\ ServiceIdle
    /\ ExtIdle

SpecDetect == InitDetect /\ [][DetectComboClassCall]_vars

InitHeuristic ==
    /\ \E n \in AllNames \cup ExampleNames :
           det = ReadyDet(StyleWith("absent"), n, PresetWith(StringPolicy("heuristic-only")))
    /\ ServiceIdle
    /\ ExtIdle

SpecHeuristic == InitHeuristic /\ [][DetectComboClassCall]_vars

----------------------------------------------------------------------------
(* The site-wide fetch: getAllStylesWithProperties and resetStyleServiceCache *)

\* getName() of a Style: resolves with a string, or rejects
NameResolves(n) == [kind |-> "resolves", value |-> n]

NameRejects == [kind |-> "rejects", value |-> <<>>]

HostStyle(id, getName, signal) ==
    [id |-> id, getName |-> getName, isComboClass |-> signal]

\* getCurrentPreset() and getPresetById(presetId), as a completion
LookupPreset(env) ==
    IF env.kind \in {"currentThrows", "byIdThrows"}
    THEN [threw |-> TRUE, value |-> UndefinedPreset]
    ELSE [threw |-> FALSE, value |-> env.preset]

\* let currentPreset; try { currentPreset = getPresetById(getCurrentPreset()) } catch {}
CurrentPreset(env) ==
    IF LookupPreset(env).threw
    THEN [threw |-> FALSE, value |-> UndefinedPreset]
    ELSE LookupPreset(env)

\* the entry the catch block of the mapper returns
UnnamedEntry(style, index) ==
    [id |-> style.id, name |-> <<>>, index |-> index,
     isCombo |-> "false", comboDetectionSource |-> "heuristic"]

\* the mapper of allStyles.map: one entry of allStylesWithProperties.
\* The properties field is left out: getProperties is called only for names
\* starting with "u-", its failure is swallowed, and nothing reads the field.
MapStyle(style, index, currentPreset) ==
    IF style.getName.kind = "rejects" THEN UnnamedEntry(style, index)
    ELSE LET name == style.getName.value
             comboDetection == DetectComboClass(style, name, currentPreset)
         IN  IF comboDetection.status = "rejected" THEN UnnamedEntry(style, index)
             ELSE [id |-> style.id, name |-> Trim(name), index |-> index,
                   isCombo |-> comboDetection.isCombo,
                   comboDetectionSource |-> comboDetection.source]

\* await Promise.all(allStyles.map(async (style, index) => ...))
MapAllStyles(allStyles, currentPreset) ==
    [i \in 1..Len(allStyles) |-> MapStyle(allStyles[i], i - 1, currentPreset)]

HasName(entry) == entry.name # <<>>

\* the renumbering forgotten: order is the position in allStyles
ValidStylesInOrder_KeepIndex(allStylesWithProperties) ==
    LET validStyles == SelectSeq(allStylesWithProperties, LAMBDA e : e.name # <<>>)
    IN  [k \in 1..Len(validStyles) |->
            [id |-> validStyles[k].id, name |-> validStyles[k].name,
             index |-> validStyles[k].index, isCombo |-> validStyles[k].isCombo,
             comboDetectionSource |-> validStyles[k].comboDetectionSource,
             order |-> validStyles[k].index]]

\* allStylesWithProperties.filter(style => style.name).map((style, index) => ({...style, order: index}))
ValidStylesInOrder(allStylesWithProperties) ==
    LET validStyles == SelectSeq(allStylesWithProperties, HasName)
    IN  [k \in 1..Len(validStyles) |->
            [id |-> validStyles[k].id, name |-> validStyles[k].name,
             index |-> validStyles[k].index, isCombo |-> validStyles[k].isCombo,
             comboDetectionSource |-> validStyles[k].comboDetectionSource,
             order |-> k - 1]]

\* the promise of the async body, at its first await
PendingPromise ==
    [state |-> "awaitGetAllStyles", allStyles |-> <<>>, currentPreset |-> UndefinedPreset,
     allStylesWithProperties |-> <<>>, value |-> <<>>]

\* the cache test forgotten: every call starts a fetch
GetAllStylesWithProperties_NoCache ==
    /\ Len(calls) < MaxCalls
    /\ promises' = Append(promises, PendingPromise)
    /\ cachedAllStylesPromise' = Len(promises) + 1
    /\ fetchLog' = Append(fetchLog, resetCount)
    /\ calls' = Append(calls, [promise |-> cachedAllStylesPromise', epoch |-> resetCount])
    /\ UNCHANGED <<extVars, det, site, presetEnv, resetCount>>

\* a failed fetch retried: a rejected cached promise treated as no cache
GetAllStylesWithProperties_RetryFailed ==
    /\ Len(calls) < MaxCalls
    /\ IF \/ cachedAllStylesPromise = 0
          \/ promises[cachedAllStylesPromise].state = "rejected"
       THEN /\ promises' = Append(promises, PendingPromise)
            /\ cachedAllStylesPromise' = Len(promises) + 1
            /\ fetchLog' = Append(fetchLog, resetCount)
       ELSE UNCHANGED <<promises, cachedAllStylesPromise, fetchLog>>
    /\ calls' = Append(calls, [promise |-> cachedAllStylesPromise', epoch |-> resetCount])
    /\ UNCHANGED <<extVars, det, site, presetEnv, resetCount>>

\* getAllStylesWithProperties(): starts the async body (which calls
\* webflow.getAllStyles() before its first await) when nothing is cached,
\* and returns the cached promise
GetAllStylesWithProperties ==
    /\ Len(calls) < MaxCalls
    /\ IF cachedAllStylesPromise = 0
       THEN /\ promises' = Append(promises, PendingPromise)
            /\ cachedAllStylesPromise' = Len(promises) + 1
            /\ fetchLog' = Append(fetchLog, resetCount)
       ELSE UNCHANGED <<promises, cachedAllStylesPromise, fetchLog>>
    /\ calls' = Append(calls, [promise |-> cachedAllStylesPromise', epoch |-> resetCount])
    /\ UNCHANGED <<extVars, det, site, presetEnv, resetCount>>

\* webflow.getAllStyles() resolves: the body reads the preset and starts the mappers
GetAllStylesResolves(p) ==
    /\ promises[p].state = "awaitGetAllStyles"
    /\ LET cp == CurrentPreset(presetEnv)
       IN  promises' =
             IF cp.threw
             THEN [promises EXCEPT ![p].state = "rejected"]
             ELSE [promises EXCEPT ![p].state = "awaitPromiseAll",
                                   ![p].allStyles = site,
                                   ![p].currentPreset = cp.value]
    /\ UNCHANGED <<extVars, det, site, presetEnv, cachedAllStylesPromise, calls, fetchLog, resetCount>>

\* webflow.getAllStyles() rejects: so does the promise of the body
GetAllStylesRejects(p) ==
    /\ promises[p].state = "awaitGetAllStyles"
    /\ promises' = [promises EXCEPT ![p].state = "rejected"]
    /\ UNCHANGED <<extVars, det, site, presetEnv, cachedAllStylesPromise, calls, fetchLog, resetCount>>

\* Promise.all resolves: filter, number, fulfil
PromiseAllResolves(p) ==
    /\ promises[p].state = "awaitPromiseAll"
    /\ LET allStylesWithProperties ==
               MapAllStyles(promises[p].allStyles, promises[p].currentPreset)
       IN  promises' = [promises EXCEPT
               ![p].state = "fulfilled",
               ![p].allStylesWithProperties = allStylesWithProperties,
               ![p].value = ValidStylesInOrder(allStylesWithProperties)]
    /\ UNCHANGED <<extVars, det, site, presetEnv, cachedAllStylesPromise, calls, fetchLog, resetCount>>

\* resetStyleServiceCache()
ResetStyleServiceCache ==
    /\ resetCount < MaxResets
    /\ cachedAllStylesPromise' = 0
    /\ resetCount' = resetCount + 1
    /\ UNCHANGED <<extVars, det, site, presetEnv, promises, calls, fetchLog>>

----------------------------------------------------------------------------
(* Environments of the service specifications *)

PresetEnvs ==
    { [kind |-> "currentThrows", preset |-> UndefinedPreset],
      [kind |-> "byIdThrows", preset |-> UndefinedPreset],
      [kind |-> "notFound", preset |-> UndefinedPreset] }
    \cup { [kind |-> "found", preset |-> PresetWith(p)] : p \in Policies }

\* names getName() resolves with: a combo name, a plain name, a combo name
\* behind a leading blank
ServiceNames == { <<"i","s","-","a">>, <<"x">>, <<" ","i","s","A">> }

\* what a Style of the site can be, its id aside
StyleKinds ==
    { [getName |-> NameResolves(n), isComboClass |-> s] : n \in ServiceNames, s \in Signals }
    \cup { [getName |-> NameResolves(<<" ">>), isComboClass |-> "absent"],
           [getName |-> NameRejects, isComboClass |-> "true"] }

\* the ids of a site's styles are their positions
SiteOf(kinds) ==
    [i \in 1..Len(kinds) |-> HostStyle(i, kinds[i].getName, kinds[i].isComboClass)]

Sites == UNION { {SiteOf(k) : k \in [1..n -> StyleKinds]} : n \in 0..MaxStyles }

\* one fetch of a site, from the call to the fulfilled promise
InitFetch ==
    /\ det = IdleDet
    /\ site \in Sites
    /\ presetEnv \in PresetEnvs
    /\ cachedAllStylesPromise = 0
    /\ promises = <<>>
    /\ calls = <<>>
    /\ fetchLog = <<>>
    /\ resetCount = 0
    /\ ExtIdle

NextFetch ==
    \/ (calls = <<>> /\ GetAllStylesWithProperties)
    \/ \E p \in 1..Len(promises) : GetAllStylesResolves(p)
    \/ \E p \in 1..Len(promises) : PromiseAllResolves(p)

SpecFetch == InitFetch /\ [][NextFetch]_vars

\* the two-style sites of the cache specification
CacheStyleKinds ==
    { [getName |-> NameResolves(<<"i","s","-","a">>), isComboClass |-> "true"],
      [getName |-> NameResolves(<<"x">>), isComboClass |-> "absent"] }

CacheSites == UNION { {SiteOf(k) : k \in [1..n -> CacheStyleKinds]} : n \in 0..MaxStyles }

Init ==
    /\ det = IdleDet
    /\ site \in CacheSites
    /\ presetEnv \in { [kind |-> "notFound", preset |-> UndefinedPreset],
                       [kind |-> "found", preset |-> PresetWith(StringPolicy("api-only"))] }
    /\ cachedAllStylesPromise = 0
    /\ promises = <<>>
    /\ calls = <<>>
    /\ fetchLog = <<>>
    /\ resetCount = 0
    /\ ExtIdle

Next ==
    \/ GetAllStylesWithProperties
    \/ \E p \in 1..Len(promises) : GetAllStylesResolves(p)
    \/ \E p \in 1..Len(promises) : GetAllStylesRejects(p)
    \/ \E p \in 1..Len(promises) : PromiseAllResolves(p)
    \/ ResetStyleServiceCache

Spec == Init /\ [][Next]_vars

----------------------------------------------------------------------------
(* Claims about detectComboClass, checked under SpecDetect *)

DetDone == det.pc = "done"

DetPolicyIs(s) == det.preset = PresetWith(StringPolicy(s))

\* the heuristic's verdict on the class name of the invocation, as a JavaScript boolean
DetHeuristic == ToJs(HeuristicResult(det.className))

\* C1: under policy 'api-first', when style.isComboClass() resolves to a value
\* that is neither null nor undefined the result is that value with source
\* 'api'; when the method is absent, resolves null or undefined, or rejects,
\* the result is the heuristic of the class name with source 'heuristic'.
C1_ApiFirst ==
    (DetDone /\ DetPolicyIs("api-first")) =>
        /\ det.result.status = "resolved"
        /\ IF det.style.isComboClass \in {"true", "false"}
           THEN /\ det.result.isCombo = det.style.isComboClass
                /\ det.result.source = "api"
           ELSE /\ det.result.isCombo = DetHeuristic
                /\ det.result.source = "heuristic"

\* the API says false for a name the heuristic calls a combo, and the API wins
C1_Witness ==
    /\ DetDone /\ DetPolicyIs("api-first")
    /\ det.style.isComboClass = "false"
    /\ HeuristicResult(det.className)
    /\ det.result.isCombo = "false"
    /\ det.result.source = "api"

\* C2 as stated: under 'api-only', isCombo is true exactly when the signal is
\* the boolean true, and source is 'api' only if the signal was actually
\* obtainable (the method exists and its call did not reject), otherwise 'policy'.
C2_ApiOnlySourceWhenObtainable ==
    (DetDone /\ DetPolicyIs("api-only")) =>
        /\ det.result.isCombo = ToJs(det.style.isComboClass = "true")
        /\ det.result.source =
              IF det.style.isComboClass \in {"true", "false", "null", "undefined"}
              THEN "api" ELSE "policy"

\* C2 amended: under 'api-only', isCombo is true exactly when the signal is the
\* boolean true, and source is 'api' exactly when the style has an isComboClass
\* method (also when its call rejects or resolves null or undefined), 'policy'
\* when the method is absent.
C2_ApiOnlySourceWhenMethodPresent ==
    (DetDone /\ DetPolicyIs("api-only")) =>
        /\ det.result.status = "resolved"
        /\ det.result.isCombo = ToJs(det.style.isComboClass = "true")
        /\ det.result.source =
              IF det.style.isComboClass # "absent" THEN "api" ELSE "policy"

\* a rejecting call under 'api-only': not a combo, and the source still says 'api'
C2_Witness ==
    /\ DetDone /\ DetPolicyIs("api-only")
    /\ det.style.isComboClass = "rejects"
    /\ det.result.isCombo = "false"
    /\ det.result.source = "api"

\* C3: under 'heuristic-only' the result does not depend on the external
\* signal: it is the heuristic of the class name with source 'heuristic', and
\* a run with the same class name and any other signal state returns the same.
C3_HeuristicOnlyIgnoresSignal ==
    (DetDone /\ DetPolicyIs("heuristic-only")) =>
        /\ det.result.status = "resolved"
        /\ det.result.isCombo = DetHeuristic
        /\ det.result.source = "heuristic"
        /\ \A other \in Signals :
              LET run == DetectComboClass(StyleWith(other), det.className, det.preset)
              IN  /\ run.status = det.result.status
                  /\ run.isCombo = det.result.isCombo
                  /\ run.source = det.result.source

\* the API says false, the name is a combo by the heuristic, and the heuristic wins
C3_Witness ==
    /\ DetDone /\ DetPolicyIs("heuristic-only")
    /\ det.style.isComboClass = "false"
    /\ det.result.isCombo = "true"
    /\ det.result.source = "heuristic"

\* the external signal as the policy function is to see it: the resolved
\* value, null for a rejecting call, undefined for an absent method
C4_ExternalSignal ==
    CASE det.style.isComboClass = "absent" -> "undefined"
      [] det.style.isComboClass = "rejects" -> "null"
      [] OTHER -> det.style.isComboClass

\* C4: a policy function is called exactly once, with exactly (external
\* signal, heuristic result, class name), and its return value is isCombo,
\* with source 'policy'.
C4_CustomPolicyCalledOnce ==
    (DetDone /\ det.preset.comboDetectionPolicy.type = "function") =>
        /\ det.result.status = "resolved"
        /\ det.result.policyCalls = << <<C4_ExternalSignal, DetHeuristic, det.className>> >>
        /\ det.result.isCombo =
              CallPolicyFunction(det.preset.comboDetectionPolicy.value,
                                 C4_ExternalSignal, DetHeuristic, det.className)
        /\ det.result.source = "policy"

\* a policy function that tells null from undefined saw the null of a rejecting call
C4_Witness ==
    /\ DetDone
    /\ det.preset = PresetWith(FunctionPolicy("nullMeansCombo"))
    /\ det.style.isComboClass = "rejects"
    /\ Len(det.result.policyCalls) = 1
    /\ det.result.isCombo = "true"
    /\ det.result.source = "policy"

----------------------------------------------------------------------------
(* The claim about the heuristic, checked under SpecHeuristic *)

\* the class names the sentence describes, position by position
C6_IsComboName(n) ==
    \/ /\ Len(n) >= 4
       /\ n[1] = "i" /\ n[2] = "s" /\ n[3] \in {"-", "_"}
       /\ n[4] \in AlphaNum
    \/ /\ Len(n) >= 3
       /\ n[1] = "i" /\ n[2] = "s"
       /\ n[3] \in Upper

\* C6: the heuristic is true exactly for the names that begin with 'is-' or
\* 'is_' followed by an alphanumeric character, or with 'is' followed by an
\* uppercase letter; 'is-', 'is_', 'is1234', 'is' and the empty string are
\* not combos.
C6_HeuristicExact ==
    DetDone =>
        /\ (det.result.heuristicResult = "true") <=> C6_IsComboName(det.className)
        /\ det.result.heuristicResult \in {"true", "false"}
        /\ det.className \in { <<"i","s","-">>, <<"i","s","_">>, <<"i","s">>, <<>>,
                               <<"i","s","1","2","3","4">> }
              => det.result.heuristicResult = "false"
        /\ det.className \in { <<"i","s","-","1","2","3","4">>, <<"i","s","A">>,
                               <<"i","s","_","1">> }
              => det.result.heuristicResult = "true"

\* a name with the pattern behind a leading blank is not a combo
C6_Witness ==
    /\ DetDone
    /\ det.className = <<" ", "i", "s", "A">>
    /\ det.result.heuristicResult = "false"

----------------------------------------------------------------------------
(* Claims about the fetch, checked under SpecFetch *)

Fulfilled(p) == promises[p].state = "fulfilled"

\* the styles with every rejecting isComboClass replaced by one resolving null
C5_NullForRejects(allStyles) ==
    [i \in 1..Len(allStyles) |->
        IF allStyles[i].isComboClass = "rejects"
        THEN [allStyles[i] EXCEPT !.isComboClass = "null"]
        ELSE allStyles[i]]

\* C5: a rejecting isComboClass() call is treated exactly as the signal null
\* and is not propagated: the fetch does not fail, its entries are those of
\* the same styles with the call resolving null, and a named style whose call
\* rejects is in the returned list.
C5_RejectionIsNullSignal ==
    \A p \in 1..Len(promises) :
        /\ promises[p].state # "rejected"
        /\ Fulfilled(p) =>
              LET all == promises[p].allStyles
                  asNull == MapAllStyles(C5_NullForRejects(all), promises[p].currentPreset)
              IN  /\ promises[p].allStylesWithProperties = asNull
                  /\ promises[p].value = ValidStylesInOrder(asNull)
                  /\ \A i \in 1..Len(all) :
                        ( /\ all[i].isComboClass = "rejects"
                          /\ all[i].getName.kind = "resolves"
                          /\ Trim(all[i].getName.value) # <<>> )
                        => \E k \in 1..Len(promises[p].value) :
                               promises[p].value[k].id = all[i].id

\* a style whose call rejects is returned, classified by the heuristic
C5_Witness ==
    \E p \in 1..Len(promises) :
        /\ Fulfilled(p)
        /\ Len(promises[p].allStyles) > 1
        /\ promises[p].allStyles[1].isComboClass = "rejects"
        /\ promises[p].currentPreset = UndefinedPreset
        /\ \E k \in 1..Len(promises[p].value) :
              /\ promises[p].value[k].id = 1
              /\ promises[p].value[k].isCombo = "true"
              /\ promises[p].value[k].comboDetectionSource = "heuristic"

\* the registry gives no usable policy
C7_NoUsablePolicy ==
    \/ presetEnv.kind \in {"currentThrows", "byIdThrows", "notFound"}
    \/ /\ presetEnv.kind = "found"
       /\ presetEnv.preset.comboDetectionPolicy \in {NoPolicy, StringPolicy("unknown-policy")}

\* C7: when the preset has no comboDetectionPolicy, or an unrecognized one,
\* or getPresetById returns undefined, or getCurrentPreset or getPresetById
\* throws, the fetch does not fail and returns what it returns under a preset
\* whose policy is 'api-first'.
C7_NoPolicyMeansApiFirst ==
    C7_NoUsablePolicy =>
        \A p \in 1..Len(promises) :
            /\ promises[p].state # "rejected"
            /\ Fulfilled(p) =>
                  LET asApiFirst == MapAllStyles(promises[p].allStyles,
                                                 PresetWith(StringPolicy("api-first")))
                  IN  /\ promises[p].allStylesWithProperties = asApiFirst
                      /\ promises[p].value = ValidStylesInOrder(asApiFirst)

\* getPresetById throws, and the API's answer is used against the heuristic
C7_Witness ==
    /\ presetEnv.kind = "byIdThrows"
    /\ \E p \in 1..Len(promises) :
          /\ Fulfilled(p)
          /\ \E k \in 1..Len(promises[p].value) :
                /\ promises[p].value[k].comboDetectionSource = "api"
                /\ promises[p].value[k].isCombo = "false"
                /\ HeuristicResult(promises[p].value[k].name)

\* C10: in every StyleInfo the fetch returns, a source of 'heuristic' means
\* isCombo is the heuristic applied to the returned name, and a source of
\* 'api' with a boolean answer of isComboClass() means isCombo is that answer.
C10_SourceRecordsCodePath ==
    \A p \in 1..Len(promises) :
        Fulfilled(p) =>
            \A k \in 1..Len(promises[p].value) :
                LET info == promises[p].value[k]
                    style == promises[p].allStyles[info.index + 1]
                IN  /\ info.comboDetectionSource = "heuristic"
                          => info.isCombo = ToJs(HeuristicResult(info.name))
                    /\ ( /\ info.comboDetectionSource = "api"
                         /\ style.isComboClass \in {"true", "false"} )
                          => info.isCombo = style.isComboClass

----------------------------------------------------------------------------
(* The claim about the cache, checked under Spec *)

\* C9: between two resets webflow.getAllStyles is called at most once,
\* however many calls of getAllStylesWithProperties there are and however
\* they overlap, and all of them get the same promise, hence the same list;
\* calls separated by a reset get different promises, each from its own fetch.
C9_FetchMemoized ==
    /\ \A i, j \in 1..Len(fetchLog) : i # j => fetchLog[i] # fetchLog[j]
    /\ \A i, j \in 1..Len(calls) :
          /\ (calls[i].epoch = calls[j].epoch) <=> (calls[i].promise = calls[j].promise)
          /\ (calls[i].promise = calls[j].promise /\ Fulfilled(calls[i].promise))
                => promises[calls[i].promise].value = promises[calls[j].promise].value
    /\ \A i \in 1..Len(calls) :
          /\ calls[i].promise \in 1..Len(promises)
          /\ \E f \in 1..Len(fetchLog) : fetchLog[f] = calls[i].epoch
    /\ Len(fetchLog) = Len(promises)
    /\ cachedAllStylesPromise = 0 => \A i \in 1..Len(calls) : calls[i].epoch < resetCount

\* two calls overlap on one pending fetch, and a call after a reset fetches again
C9_Witness ==
    /\ Len(calls) = 3
    /\ calls[1].promise = calls[2].promise
    /\ calls[3].promise # calls[1].promise
    /\ Len(fetchLog) = 2
    /\ promises[calls[1].promise].state = "awaitGetAllStyles"
    /\ Fulfilled(calls[3].promise)

----------------------------------------------------------------------------
(* Further claims about the fetch *)

\* the style of the site a returned StyleInfo was made from
C14_StyleOf(p, info) == promises[p].allStyles[info.index + 1]

\* the style has a name that is not empty once trimmed
C14_Named(style) ==
    /\ style.getName.kind = "resolves"
    /\ Trim(style.getName.value) # <<>>

\* C14: the fetch returns exactly the styles with a non-empty trimmed name,
\* in the relative order webflow.getAllStyles gave them, with order fields
\* 0, 1, ..., n-1; a style whose getName rejects or whose name is empty is
\* dropped, the fetch does not fail, and no other style is dropped.
C14_ValidStylesInOrder ==
    \A p \in 1..Len(promises) :
        /\ promises[p].state # "rejected"
        /\ Fulfilled(p) =>
              LET value == promises[p].value
                  all == promises[p].allStyles
              IN  /\ \A k \in 1..Len(value) :
                        /\ value[k].order = k - 1
                        /\ value[k].index \in 0..(Len(all) - 1)
                        /\ C14_Named(C14_StyleOf(p, value[k]))
                        /\ value[k].name = Trim(C14_StyleOf(p, value[k]).getName.value)
                        /\ value[k].id = C14_StyleOf(p, value[k]).id
                  /\ \A k, l \in 1..Len(value) : k < l => value[k].index < value[l].index
                  /\ \A i \in 1..Len(all) :
                        C14_Named(all[i]) => \E k \in 1..Len(value) : value[k].index = i - 1

\* the first style is dropped (its getName rejects or its name is blank) and
\* the second is returned with order 0
C14_Witness ==
    \E p \in 1..Len(promises) :
        /\ Fulfilled(p)
        /\ Len(promises[p].allStyles) > 1
        /\ ~C14_Named(promises[p].allStyles[1])
        /\ Len(promises[p].value) > 0
        /\ promises[p].value[1].index = 1
        /\ promises[p].value[1].order = 0

----------------------------------------------------------------------------
(* A further claim about the cache, checked under Spec *)

\* the cached promise is one whose fetch failed
FailedFetchCached ==
    /\ cachedAllStylesPromise # 0
    /\ promises[cachedAllStylesPromise].state = "rejected"

\* C18: while a promise whose webflow.getAllStyles() rejected is cached, it
\* stays rejected, only resetStyleServiceCache removes it from the cache, and
\* every call of getAllStylesWithProperties returns it without a new call of
\* webflow.getAllStyles.
C18_FailedFetchStaysCached ==
    [][ FailedFetchCached =>
          /\ promises'[cachedAllStylesPromise].state = "rejected"
          /\ \/ cachedAllStylesPromise' = cachedAllStylesPromise
             \/ (cachedAllStylesPromise' = 0 /\ resetCount' = resetCount + 1)
          /\ Len(calls') > Len(calls) =>
                /\ calls'[Len(calls')].promise = cachedAllStylesPromise
                /\ fetchLog' = fetchLog
                /\ Len(promises') = Len(promises) ]_vars

\* two calls were answered with the one failed promise of a single fetch,
\* which is still cached
C18_Witness ==
    /\ FailedFetchCached
    /\ Len(calls) > 1
    /\ \A i \in 1..Len(calls) : calls[i].promise = cachedAllStylesPromise
    /\ Len(fetchLog) = 1


\* ---------------------------------------------------------------------------
\* sortStylesByType
\* ---------------------------------------------------------------------------

MaxSortLen == 3

\* the `order` values of the StyleInfo entries handed to the sort
SortOrders == 0..(MaxSortLen - 1)

\* a StyleInfo as the sort sees it; id tells the entries of one array apart
SortInfo(id, isCombo, order) == [id |-> id, isCombo |-> isCombo, order |-> order]

\* the comparator with the groups the wrong way round
Compare_CombosFirst(a, b) ==
    LET aIsCombo == a.isCombo = "true"
        bIsCombo == b.isCombo = "true"
    IN  IF aIsCombo # bIsCombo THEN (IF aIsCombo THEN -1 ELSE 1)
        ELSE a.order - b.order

\* the comparator: combo after non-combo, then by order
Compare(a, b) ==
    LET aIsCombo == a.isCombo = "true"
        bIsCombo == b.isCombo = "true"
    IN  IF aIsCombo # bIsCombo THEN (IF aIsCombo THEN 1 ELSE -1)
        ELSE a.order - b.order

RECURSIVE InsertSorted(_, _)
\* x put behind every entry that does not compare greater than it
InsertSorted(s, x) ==
    IF s = <<>> THEN <<x>>
    ELSE IF Compare(Head(s), x) > 0 THEN <<x>> \o s
    ELSE <<Head(s)>> \o InsertSorted(Tail(s), x)

RECURSIVE StableSort(_)
\* Array.prototype.sort with the comparator: a stable sort
StableSort(s) ==
    IF s = <<>> THEN <<>>
    ELSE InsertSorted(StableSort(SubSeq(s, 1, Len(s) - 1)), s[Len(s)])

\* the sort of a copy: the result and the caller's array after the call
SortStylesByType(styles) ==
    [result |-> StableSort(styles), styles |-> styles]

SortInputs ==
    UNION { { s \in [1..n -> [id : 1..MaxSortLen,
                              isCombo : {"true", "false", "undefined"},
                              order : SortOrders]] :
                \A i \in 1..n : s[i].id = i } : n \in 0..MaxSortLen }

SortStylesByTypeCall ==
    /\ srt.pc = "ready"
    /\ LET r == SortStylesByType(srt.styles)
       IN  srt' = [pc |-> "done", styles |-> r.styles, result |-> r.result,
                   given |-> srt.styles]
    /\ UNCHANGED <<det, svcVars, app, storeVars>>

InitSort ==
    /\ det = IdleDet
    /\ ServiceIdle
    /\ AppliedIdle
    /\ StoreIdle
    /\ \E s \in SortInputs :
          srt = [pc |-> "ready", styles |-> s, result |-> <<>>, given |-> s]

SpecSort == InitSort /\ [][SortStylesByTypeCall]_vars

IsCombo(info) == info.isCombo = "true"

\* C19: sortStylesByType returns a permutation of its argument in which every
\* non-combo entry precedes every combo entry and each group is in ascending
\* order; the argument array is left as it was; sorting the result again
\* gives the result.
C19_SortStylesByType ==
    srt.pc = "done" =>
        LET in == srt.given
            out == srt.result
        IN  /\ Len(out) = Len(in)
            /\ \A i \in 1..Len(in) : \E k \in 1..Len(out) : out[k] = in[i]
            /\ \A k, l \in 1..Len(out) :
                  k < l => /\ ~(IsCombo(out[k]) /\ ~IsCombo(out[l]))
                           /\ IsCombo(out[k]) = IsCombo(out[l])
                                  => out[k].order <= out[l].order
            /\ srt.styles = in
            /\ SortStylesByType(out).result = out

C19_Witness ==
    /\ srt.pc = "done"
    /\ Len(srt.result) = 3
    /\ srt.result # srt.given
    /\ IsCombo(srt.given[1])
    /\ ~IsCombo(srt.given[2])
    /\ srt.given[3].order < srt.given[2].order


\* ---------------------------------------------------------------------------
\* getAppliedStyles and getAppliedClassNames
\* ---------------------------------------------------------------------------

MaxApplied == 3

MaxOverlapStyles == 2

\* if (!element || typeof element.getStyles !== 'function')
ValidElement(element) == element.kind \notin {"null", "noGetStyles"}

\* order taken from the position in the result list
AppliedStep_OrderByPosition(seenIds, uniqueStyles, style, i, currentPreset) ==
    IF style.getName.kind = "rejects"
    THEN [seenIds |-> seenIds, uniqueStyles |-> uniqueStyles]
    ELSE LET id == style.id
             trimmedName == Trim(style.getName.value)
             comboDetection == DetectComboClass(style, trimmedName, currentPreset)
         IN  IF comboDetection.status = "rejected"
             THEN [seenIds |-> seenIds, uniqueStyles |-> uniqueStyles]
             ELSE IF id # "" /\ id \notin seenIds
             THEN [seenIds |-> seenIds \cup {id},
                   uniqueStyles |-> Append(uniqueStyles,
                       [id |-> id, name |-> trimmedName, order |-> Len(uniqueStyles),
                        isCombo |-> comboDetection.isCombo,
                        comboDetectionSource |-> comboDetection.source])]
             ELSE [seenIds |-> seenIds, uniqueStyles |-> uniqueStyles]

\* one iteration of the loop over appliedStyles: the body of the try, and the
\* catch that logs and goes on. The properties field is left out, as in MapStyle.
AppliedStep(seenIds, uniqueStyles, style, i, currentPreset) ==
    IF style.getName.kind = "rejects"
    THEN [seenIds |-> seenIds, uniqueStyles |-> uniqueStyles]
    ELSE LET id == style.id
             trimmedName == Trim(style.getName.value)
             comboDetection == DetectComboClass(style, trimmedName, currentPreset)
         IN  IF comboDetection.status = "rejected"
             THEN [seenIds |-> seenIds, uniqueStyles |-> uniqueStyles]
             ELSE IF id # "" /\ id \notin seenIds
             THEN [seenIds |-> seenIds \cup {id},
                   uniqueStyles |-> Append(uniqueStyles,
                       [id |-> id, name |-> trimmedName, order |-> i,
                        isCombo |-> comboDetection.isCombo,
                        comboDetectionSource |-> comboDetection.source])]
             ELSE [seenIds |-> seenIds, uniqueStyles |-> uniqueStyles]

RECURSIVE AppliedLoop(_, _, _, _, _)
\* the iterations from i on, run with nothing in between
AppliedLoop(seenIds, uniqueStyles, appliedStyles, i, currentPreset) ==
    IF i >= Len(appliedStyles) THEN uniqueStyles
    ELSE LET step == AppliedStep(seenIds, uniqueStyles, appliedStyles[i + 1], i, currentPreset)
         IN  AppliedLoop(step.seenIds, step.uniqueStyles, appliedStyles, i + 1, currentPreset)

\* what getAppliedStyles(element) returns when no other call runs meanwhile
GetAppliedStylesAlone(element, env) ==
    IF ~ValidElement(element) \/ element.kind = "getStylesRejects" \/ element.styles = <<>>
    THEN <<>>
    ELSE AppliedLoop({}, <<>>, element.styles, 0, CurrentPreset(env).value)

\* the mapper without the trim
ClassNameOf_Untrimmed(style) ==
    IF style.getName.kind = "rejects" THEN <<>> ELSE style.getName.value

\* the mapper of styles.map in getAppliedClassNames: n?.trim() || "", "" on a rejection
ClassNameOf(style) ==
    IF style.getName.kind = "rejects" THEN <<>> ELSE Trim(style.getName.value)

RECURSIVE Dedupe(_, _, _)
\* for (const n of names) if (n && !seen.has(n)) { seen.add(n); deduped.push(n) }
Dedupe(names, seen, deduped) ==
    IF names = <<>> THEN deduped
    ELSE LET n == Head(names)
         IN  IF n # <<>> /\ n \notin seen
             THEN Dedupe(Tail(names), seen \cup {n}, Append(deduped, n))
             ELSE Dedupe(Tail(names), seen, deduped)

\* what Promise.all and the loop after it give for the styles of an element
DedupedNames(styles) ==
    Dedupe([k \in 1..Len(styles) |-> ClassNameOf(styles[k])], {}, <<>>)

\* what getAppliedClassNames(element) returns when no other call runs meanwhile
GetAppliedClassNamesAlone(element) ==
    IF ~ValidElement(element) \/ element.kind = "getStylesRejects" \/ element.styles = <<>>
    THEN <<>>
    ELSE DedupedNames(element.styles)

InProgress(c) == app[c].pc \in {"awaitGetStyles", "loop", "awaitPromiseAll"}

\* ghost: some other invocation is between its call and its return
Overlaps(c) == \E d \in Callers \ {c} : InProgress(d)

\* one set for all the invocations
SeenIds_Shared(c) == UNION { app[d].seenIds : d \in Callers }

\* const seenIds = new Set<string>(), of the invocation of caller c
SeenIds(c) == app[c].seenIds

\* the call of either function, up to its first await
CallOnElement(c, fn, element) ==
    /\ app[c].pc = "idle"
    /\ app' = [app EXCEPT ![c] =
          IF ValidElement(element)
          THEN [@ EXCEPT !.fn = fn, !.pc = "awaitGetStyles", !.element = element,
                         !.overlapped = Overlaps(c)]
          ELSE [@ EXCEPT !.fn = fn, !.pc = "returned", !.element = element,
                         !.result = <<>>, !.overlapped = Overlaps(c)]]
    /\ UNCHANGED <<det, svcVars, srt, storeVars>>

GetAppliedStyles(c, element) == CallOnElement(c, "getAppliedStyles", element)

GetAppliedClassNames(c, element) == CallOnElement(c, "getAppliedClassNames", element)

\* await element.getStyles() settles; getAppliedStyles then reads the preset
GetStylesSettles(c) ==
    /\ app[c].pc = "awaitGetStyles"
    /\ LET element == app[c].element
           returnsEmpty == element.kind = "getStylesRejects" \/ element.styles = <<>>
       IN  app' = [app EXCEPT ![c] =
              IF returnsEmpty
              THEN [@ EXCEPT !.pc = "returned", !.result = <<>>,
                             !.overlapped = @ \/ Overlaps(c)]
              ELSE IF app[c].fn = "getAppliedStyles"
              THEN [@ EXCEPT !.pc = "loop", !.appliedStyles = element.styles,
                             !.currentPreset = CurrentPreset(presetEnv).value,
                             !.i = 0, !.seenIds = {}, !.uniqueStyles = <<>>,
                             !.overlapped = @ \/ Overlaps(c)]
              ELSE [@ EXCEPT !.pc = "awaitPromiseAll", !.appliedStyles = element.styles,
                             !.overlapped = @ \/ Overlaps(c)]]
    /\ UNCHANGED <<det, svcVars, srt, storeVars>>

\* one iteration of the for loop; return uniqueStyles behind the last one
AppliedLoopStep(c) ==
    /\ app[c].pc = "loop"
    /\ LET i == app[c].i
           step == AppliedStep(SeenIds(c), app[c].uniqueStyles,
                               app[c].appliedStyles[i + 1], i, app[c].currentPreset)
           last == i + 1 = Len(app[c].appliedStyles)
       IN  app' = [app EXCEPT ![c] =
              [@ EXCEPT !.i = i + 1, !.seenIds = step.seenIds,
                        !.uniqueStyles = step.uniqueStyles,
                        !.pc = IF last THEN "returned" ELSE "loop",
                        !.result = IF last THEN step.uniqueStyles ELSE <<>>,
                        !.overlapped = @ \/ Overlaps(c)]]
    /\ UNCHANGED <<det, svcVars, srt, storeVars>>

\* await Promise.all(styles.map(...)) resolves; the names are de-duplicated
ClassNamesResolve(c) ==
    /\ app[c].pc = "awaitPromiseAll"
    /\ app' = [app EXCEPT ![c] =
          [@ EXCEPT !.pc = "returned", !.result = DedupedNames(app[c].appliedStyles),
                    !.overlapped = @ \/ Overlaps(c)]]
    /\ UNCHANGED <<det, svcVars, srt, storeVars>>

\* a Style among an element's styles: two ids, each with a name that needs
\* trimming or not, or a failing getName; one with an empty id, one with a
\* name of blanks
AppliedStyleKinds ==
    { HostStyle(id, g, "absent") :
        id \in {"s1", "s2"},
        g \in {NameResolves(<<"i","s","-","a">>), NameResolves(<<" ","x">>), NameRejects} }
    \cup { HostStyle("", NameResolves(<<"x">>), "absent"),
           HostStyle("s1", NameResolves(<<"i","s","-","a">>), "false"),
           HostStyle("s2", NameResolves(<<" ">>), "absent") }

StylesUpTo(kinds, n) == UNION { [1..k -> kinds] : k \in 0..n }

ElementWith(styles) == [kind |-> "element", styles |-> styles]

BrokenElement(kind) == [kind |-> kind, styles |-> <<>>]

Elements ==
    { BrokenElement(k) : k \in {"null", "noGetStyles", "getStylesRejects"} }
    \cup { ElementWith(s) : s \in StylesUpTo(AppliedStyleKinds, MaxApplied) }

AppliedPresetEnvs ==
    { [kind |-> "notFound", preset |-> UndefinedPreset],
      [kind |-> "found", preset |-> PresetWith(StringPolicy("api-only"))] }

InitApplied ==
    /\ det = IdleDet
    /\ site = <<>>
    /\ presetEnv \in AppliedPresetEnvs
    /\ cachedAllStylesPromise = 0
    /\ promises = <<>>
    /\ calls = <<>>
    /\ fetchLog = <<>>
    /\ resetCount = 0
    /\ ExtIdle

\* one invocation of either function on any element
NextApplied ==
    \/ \E element \in Elements : GetAppliedStyles(1, element)
    \/ \E element \in Elements : GetAppliedClassNames(1, element)
    \/ GetStylesSettles(1)
    \/ AppliedLoopStep(1)
    \/ ClassNamesResolve(1)

SpecApplied == InitApplied /\ [][NextApplied]_vars

\* the styles of the elements two overlapping invocations work on
OverlapStyleKinds ==
    { HostStyle("s1", NameResolves(<<"i","s","-","a">>), "absent"),
      HostStyle("s2", NameResolves(<<"x">>), "absent"),
      HostStyle("s1", NameRejects, "absent") }

OverlapElements ==
    { BrokenElement("null"), BrokenElement("getStylesRejects") }
    \cup { ElementWith(s) : s \in StylesUpTo(OverlapStyleKinds, MaxOverlapStyles) }

\* both callers, in any interleaving of their steps
NextOverlap ==
    \E c \in Callers :
        \/ \E element \in OverlapElements : GetAppliedStyles(c, element)
        \/ \E element \in OverlapElements : GetAppliedClassNames(c, element)
        \/ GetStylesSettles(c)
        \/ AppliedLoopStep(c)
        \/ ClassNamesResolve(c)

SpecOverlap == InitApplied /\ [][NextOverlap]_vars


\* a finished getAppliedStyles call of caller 1 on an element with styles
C13_Returned ==
    /\ app[1].fn = "getAppliedStyles"
    /\ app[1].pc = "returned"
    /\ app[1].element.kind = "element"

C13_Occurrences(id) ==
    { j \in 1..Len(app[1].element.styles) : app[1].element.styles[j].id = id }

C13_Resolving(id) ==
    { j \in C13_Occurrences(id) : app[1].element.styles[j].getName.kind = "resolves" }

C13_Min(S) == CHOOSE j \in S : \A k \in S : j <= k

C13_DistinctIncreasing ==
    \A k, l \in 1..Len(app[1].result) :
        k < l => /\ app[1].result[k].id # app[1].result[l].id
                 /\ app[1].result[k].order < app[1].result[l].order

\* C13, as stated: getAppliedStyles returns pairwise distinct ids, each entry's
\* order being the index of the first occurrence of its id in
\* element.getStyles(), with strictly increasing orders.
C13_OrderIsFirstOccurrence ==
    C13_Returned =>
        /\ C13_DistinctIncreasing
        /\ \A k \in 1..Len(app[1].result) :
              app[1].result[k].order = C13_Min(C13_Occurrences(app[1].result[k].id)) - 1

\* C13, amended: getAppliedStyles returns pairwise distinct, non-empty ids with
\* strictly increasing orders; each entry's order is the index of the first
\* occurrence of its id whose getName resolved, and its name is that
\* occurrence's trimmed name; every non-empty id with an occurrence whose
\* getName resolved is returned, so a rejecting getName removes nothing else.
C13_OrderIsFirstResolvedOccurrence ==
    C13_Returned =>
        /\ C13_DistinctIncreasing
        /\ \A k \in 1..Len(app[1].result) :
              LET entry == app[1].result[k]
              IN  /\ entry.id # ""
                  /\ C13_Resolving(entry.id) # {}
                  /\ entry.order = C13_Min(C13_Resolving(entry.id)) - 1
                  /\ entry.name = Trim(app[1].element.styles[entry.order + 1].getName.value)
        /\ \A j \in 1..Len(app[1].element.styles) :
              LET id == app[1].element.styles[j].id
              IN  (id # "" /\ C13_Resolving(id) # {})
                      => \E k \in 1..Len(app[1].result) : app[1].result[k].id = id

\* the first occurrence of an id rejects, a later one resolves, and another
\* style is returned after it
C13_Witness ==
    /\ C13_Returned
    /\ Len(app[1].element.styles) = 3
    /\ app[1].element.styles[1].id = app[1].element.styles[2].id
    /\ app[1].element.styles[1].getName.kind = "rejects"
    /\ Len(app[1].result) = 2
    /\ app[1].result[1].order = 1
    /\ app[1].result[2].order = 2


\* what the call of caller c returns when it runs alone on its element
C11_Alone(c) ==
    IF app[c].fn = "getAppliedStyles"
    THEN GetAppliedStylesAlone(app[c].element, presetEnv)
    ELSE GetAppliedClassNamesAlone(app[c].element)

\* C11: whatever the interleaving of two getAppliedStyles or
\* getAppliedClassNames invocations, each returns exactly the list it returns
\* when it runs alone on its element.
C11_OverlappingCallsDoNotInterfere ==
    \A c \in Callers : app[c].pc = "returned" => app[c].result = C11_Alone(c)

\* two getAppliedStyles calls on different elements that share a style id ran
\* interleaved, and both returned that id
C11_Witness ==
    /\ \A c \in Callers :
          /\ app[c].pc = "returned"
          /\ app[c].fn = "getAppliedStyles"
          /\ app[c].overlapped
          /\ \E k \in 1..Len(app[c].result) : app[c].result[k].id = "s1"
    /\ app[1].element # app[2].element


\* ---------------------------------------------------------------------------
\* useElementLintStore: refresh, clear and the selectedelement subscription
\* ---------------------------------------------------------------------------

MaxOps == 4

\* what the Designer can have selected: nothing, an element without
\* getStyles, or one of two elements
Selections == {"null", "noGetStyles", "e1", "e2"}

\* !el || typeof el.getStyles !== "function"
Lintable(el) == el \notin {"null", "noGetStyles"}

\* window.webflow: missing, or with subscribe and getSelectedElement or one of them
WebflowKinds == {"none", "subscribeOnly", "getSelectedElementOnly", "full"}

HasSubscribe(wf) == wf \in {"subscribeOnly", "full"}

HasGetSelectedElement(wf) == wf \in {"getSelectedElementOnly", "full"}

\* the one-time subscription at module load took place
Subscribed == HasSubscribe(host.webflow) /\ ~host.ensureThrows

\* how a call of scanSelectedElementWithMeta, or of wf.getSelectedElement, can end
ScanOutcomes == {"meta", "resultsOnly", "rejectsError", "rejectsOther"}

SelectOutcomes == {"resolves", "rejectsError", "rejectsOther"}

\* the meta of a scan of el: its lists are told apart by the element they
\* are about; a meta may lack classNames, contexts and roles
MetaOf(el, outcome) ==
    [results |-> <<el>>,
     classNames |-> IF outcome = "meta" THEN <<el>> ELSE "undefined",
     contexts |-> IF outcome = "meta" THEN <<el>> ELSE "undefined",
     roles |-> IF outcome = "meta" THEN <<el>> ELSE "undefined"]

\* value || []
OrEmpty(value) == IF value = "undefined" THEN <<>> ELSE value

\* set({ loading: true, error: null })
SetLoading(s) == [s EXCEPT !.loading = TRUE, !.error = "null"]

\* set({ results: [], contexts: [], classNames: [], roles: [], loading: false })
SetEmpty(s) ==
    [s EXCEPT !.results = <<>>, !.contexts = <<>>, !.classNames = <<>>,
              !.roles = <<>>, !.loading = FALSE]

\* the result stored, the loading flag left as it is
SetMeta_KeepLoading(s, meta) ==
    [s EXCEPT !.results = meta.results, !.classNames = OrEmpty(meta.classNames),
              !.contexts = OrEmpty(meta.contexts), !.roles = OrEmpty(meta.roles)]

\* set({ results: meta.results, classNames: meta.classNames || [], ..., loading: false })
SetMeta(s, meta) ==
    [s EXCEPT !.results = meta.results, !.classNames = OrEmpty(meta.classNames),
              !.contexts = OrEmpty(meta.contexts), !.roles = OrEmpty(meta.roles),
              !.loading = FALSE]

\* set({ ...initialState, error })
SetError(message) == [initialState EXCEPT !.error = message]

\* err instanceof Error ? err.message : "Failed to lint element"
RefreshErrorMessage(outcome) ==
    IF outcome = "rejectsError" THEN "err.message" ELSE "Failed to lint element"

Handler(kind, pc, el) == [kind |-> kind, pc |-> pc, el |-> el]

\* refresh() is called: up to await wf.getSelectedElement()
Refresh ==
    /\ ops < MaxOps
    /\ ops' = ops + 1
    /\ IF store.loading
       THEN UNCHANGED <<store, handlers>>
       ELSE IF host.ensureThrows
       THEN /\ store' = SetError("err.message")
            /\ UNCHANGED handlers
       ELSE IF ~HasGetSelectedElement(host.webflow)
       THEN /\ store' = SetEmpty(SetLoading(store))
            /\ UNCHANGED handlers
       ELSE /\ store' = SetLoading(store)
            /\ handlers' = Append(handlers, Handler("refresh", "awaitSelected", "null"))
    /\ UNCHANGED <<host, ignoreNext, latest, eventLog>>
    /\ UNCHANGED <<det, svcVars, srt, app>>

\* await wf.getSelectedElement() settles in a refresh
GetSelectedElementSettles(h, outcome) ==
    /\ handlers[h].pc = "awaitSelected"
    /\ IF outcome # "resolves"
       THEN /\ store' = SetError(RefreshErrorMessage(outcome))
            /\ handlers' = [handlers EXCEPT ![h].pc = "done"]
            /\ UNCHANGED latest
       ELSE LET el == host.selected
            IN  /\ latest' = el
                /\ IF Lintable(el)
                   THEN /\ handlers' = [handlers EXCEPT ![h].pc = "awaitScan", ![h].el = el]
                        /\ UNCHANGED store
                   ELSE /\ store' = SetEmpty(store)
                        /\ handlers' = [handlers EXCEPT ![h].pc = "done"]
    /\ UNCHANGED <<host, ignoreNext, ops, eventLog>>
    /\ UNCHANGED <<det, svcVars, srt, app>>

\* the callback with the flag left set when an event is skipped
SelectedElementEvent_FlagKept(el) ==
    /\ Subscribed
    /\ ops < MaxOps
    /\ ops' = ops + 1
    /\ host' = [host EXCEPT !.selected = el]
    /\ eventLog' = Append(eventLog, ignoreNext)
    /\ IF ignoreNext
       THEN /\ UNCHANGED ignoreNext
            /\ UNCHANGED <<store, handlers, latest>>
       ELSE /\ UNCHANGED ignoreNext
            /\ latest' = el
            /\ IF Lintable(el)
               THEN /\ store' = SetLoading(store)
                    /\ handlers' = Append(handlers, Handler("event", "awaitScan", el))
               ELSE /\ store' = SetEmpty(store)
                    /\ UNCHANGED handlers
    /\ UNCHANGED <<det, svcVars, srt, app>>

\* the Designer selects el and calls the subscribed callback: up to
\* await scanSelectedElementWithMeta(el)
SelectedElementEvent(el) ==
    /\ Subscribed
    /\ ops < MaxOps
    /\ ops' = ops + 1
    /\ host' = [host EXCEPT !.selected = el]
    /\ eventLog' = Append(eventLog, ignoreNext)
    /\ IF ignoreNext
       THEN /\ ignoreNext' = FALSE
            /\ UNCHANGED <<store, handlers, latest>>
       ELSE /\ UNCHANGED ignoreNext
            /\ latest' = el
            /\ IF Lintable(el)
               THEN /\ store' = SetLoading(store)
                    /\ handlers' = Append(handlers, Handler("event", "awaitScan", el))
               ELSE /\ store' = SetEmpty(store)
                    /\ UNCHANGED handlers
    /\ UNCHANGED <<det, svcVars, srt, app>>

\* await scanSelectedElementWithMeta(el) settles, in a refresh or in the callback
ScanSettles(h, outcome) ==
    /\ handlers[h].pc = "awaitScan"
    /\ handlers' = [handlers EXCEPT ![h].pc = "done"]
    /\ store' = IF outcome \in {"meta", "resultsOnly"}
                THEN SetMeta(store, MetaOf(handlers[h].el, outcome))
                ELSE IF handlers[h].kind = "refresh"
                THEN SetError(RefreshErrorMessage(outcome))
                ELSE SetError("Failed to lint element")
    /\ UNCHANGED <<host, ignoreNext, latest, ops, eventLog>>
    /\ UNCHANGED <<det, svcVars, srt, app>>

\* clear: () => set({ ...initialState })
Clear ==
    /\ ops < MaxOps
    /\ ops' = ops + 1
    /\ store' = initialState
    /\ UNCHANGED <<handlers, host, ignoreNext, latest, eventLog>>
    /\ UNCHANGED <<det, svcVars, srt, app>>

\* the extension sets window.__flowlint_ignoreNextSelectedEvent
SetIgnoreNextSelectedEvent ==
    /\ ops < MaxOps
    /\ ops' = ops + 1
    /\ ~ignoreNext
    /\ ignoreNext' = TRUE
    /\ UNCHANGED <<store, handlers, host, latest, eventLog>>
    /\ UNCHANGED <<det, svcVars, srt, app>>

InitStore ==
    /\ det = IdleDet
    /\ ServiceIdle
    /\ SortIdle
    /\ AppliedIdle
    /\ store = initialState
    /\ handlers = <<>>
    /\ host \in [webflow : WebflowKinds, ensureThrows : BOOLEAN, selected : Selections]
    /\ ignoreNext = FALSE
    /\ latest = "null"
    /\ ops = 0
    /\ eventLog = <<>>

SettleStep ==
    \/ \E h \in 1..Len(handlers), o \in SelectOutcomes : GetSelectedElementSettles(h, o)
    \/ \E h \in 1..Len(handlers), o \in ScanOutcomes : ScanSettles(h, o)

NextStore ==
    \/ Refresh
    \/ \E el \in Selections : SelectedElementEvent(el)
    \/ Clear
    \/ SetIgnoreNextSelectedEvent
    \/ SettleStep

SpecStore == InitStore /\ [][NextStore]_vars


\* refresh calls and selectedelement events only
NextStoreEvents ==
    \/ Refresh
    \/ \E el \in Selections : SelectedElementEvent(el)
    \/ SettleStep

SpecStoreEvents == InitStore /\ [][NextStoreEvents]_vars

\* every awaited host call eventually settles
SpecStoreFair == InitStore /\ [][NextStore]_vars /\ WF_vars(SettleStep)

EventDelivered == Len(eventLog') = Len(eventLog) + 1

\* the callback went through: the guard on el, then the scan started
C20_ProcessedNormally ==
    /\ ignoreNext' = FALSE
    /\ IF Lintable(host'.selected)
       THEN /\ store' = SetLoading(store)
            /\ handlers' = Append(handlers, Handler("event", "awaitScan", host'.selected))
       ELSE /\ store' = SetEmpty(store)
            /\ handlers' = handlers

\* C20: a selectedelement event delivered while
\* window.__flowlint_ignoreNextSelectedEvent is set clears the flag, changes no
\* field of the store and starts no scan; an event delivered while the flag is
\* not set, the one after a skipped event included, is processed normally.
C20_ExactlyOneEventSkipped ==
    [][ EventDelivered =>
            IF ignoreNext
            THEN /\ ignoreNext' = FALSE
                 /\ store' = store
                 /\ handlers' = handlers
            ELSE C20_ProcessedNormally ]_vars

\* the flag was set, the next event was skipped, and the event after it
\* started a scan
C20_Witness ==
    /\ eventLog = <<TRUE, FALSE>>
    /\ ~ignoreNext
    /\ Len(handlers) = 1
    /\ handlers[1] = Handler("event", "awaitScan", host.selected)
    /\ store.loading


\* C16: whenever the store's error is not null, its results, contexts,
\* classNames and roles are empty and loading is false.
C16_ErrorImpliesEmpty ==
    store.error # "null" =>
        /\ store.results = <<>>
        /\ store.contexts = <<>>
        /\ store.classNames = <<>>
        /\ store.roles = <<>>
        /\ store.loading = FALSE

\* a refresh has a scan in flight
RefreshScanning(h) == handlers[h].kind = "refresh" /\ handlers[h].pc = "awaitScan"

\* C15: at most one scan started by refresh is in flight at any time.
C15_OneRefreshScanInFlight ==
    \A g, h \in 1..Len(handlers) : (RefreshScanning(g) /\ RefreshScanning(h)) => g = h

NoneInFlight == \A h \in 1..Len(handlers) : handlers[h].pc = "done"

\* C12: once no scan is in flight, the results, classNames, contexts and roles
\* of the store are empty or those of the element the latest handler set out
\* to lint, never those of an earlier selection.
C12_StoreShowsLatestSelection ==
    NoneInFlight =>
        /\ store.results \in {<<>>, <<latest>>}
        /\ store.classNames \in {<<>>, <<latest>>}
        /\ store.contexts \in {<<>>, <<latest>>}
        /\ store.roles \in {<<>>, <<latest>>}


\* C17: if every awaited host call eventually settles, then after any finite
\* sequence of refresh calls, events and clear calls the store eventually
\* reaches loading false and stays there.
C17_EventuallyNotLoading == <>[](store.loading = FALSE)

\* a refresh and an event callback, both through a scan, have finished
C17_Witness ==
    /\ NoneInFlight
    /\ store.loading = FALSE
    /\ \E g, h \in 1..Len(handlers) :
          /\ handlers[g].kind = "refresh" /\ Lintable(handlers[g].el)
          /\ handlers[h].kind = "event"


\* a finished getAppliedClassNames call of caller 1
C21_Returned ==
    /\ app[1].fn = "getAppliedClassNames"
    /\ app[1].pc = "returned"

\* the trimmed name of the j-th style of the element, empty when getName rejects
C21_Name(j) ==
    LET style == app[1].element.styles[j]
    IN  IF style.getName.kind = "resolves" THEN Trim(style.getName.value) ELSE <<>>

C21_First(n) ==
    CHOOSE j \in 1..Len(app[1].element.styles) :
        /\ C21_Name(j) = n
        /\ \A i \in 1..(j - 1) : C21_Name(i) # n

\* C21: getAppliedClassNames returns the trimmed names of the element's
\* styles, none empty and none twice, in the order of their first occurrence
\* in element.getStyles(); a style whose getName rejects contributes nothing
\* and takes no other name away; the result is empty when the element is
\* missing, has no getStyles function, or getStyles rejects.
C21_TrimmedDistinctNamesInOrder ==
    C21_Returned =>
        LET result == app[1].result
            styles == app[1].element.styles
        IN  IF app[1].element.kind # "element" THEN result = <<>>
            ELSE /\ \A k \in 1..Len(result) :
                       /\ result[k] # <<>>
                       /\ \E j \in 1..Len(styles) : C21_Name(j) = result[k]
                 /\ \A j \in 1..Len(styles) :
                       C21_Name(j) # <<>> => \E k \in 1..Len(result) : result[k] = C21_Name(j)
                 /\ \A k, l \in 1..Len(result) :
                       k < l => /\ result[k] # result[l]
                                /\ C21_First(result[k]) < C21_First(result[l])

\* an element with a style whose getName rejects and two whose names are
\* equal only once trimmed
C21_Witness ==
    /\ C21_Returned
    /\ app[1].element.kind = "element"
    /\ \E g, i, j \in 1..Len(app[1].element.styles) :
          /\ i < j
          /\ app[1].element.styles[g].getName.kind = "rejects"
          /\ C21_Name(i) # <<>>
          /\ C21_Name(i) = C21_Name(j)
          /\ app[1].element.styles[i].getName.value # app[1].element.styles[j].getName.value
    /\ Len(app[1].result) = 1

====
